---- MODULE Spec2Model ----
(***************************************************************************)
(* Vector clocks, signed clock updates, cluster membership and single-hop  *)
(* propagation of bft_protocol.go.                                         *)
(*                                                                         *)
(* Spec           : the system built by SimulatePartition (seven nodes,    *)
(*                  leader A) driven by SetPartition, GetClockUpdate and   *)
(*                  PropagateClockUpdate calls, one call per step.         *)
(* SpecClock      : two free-standing VectorClock values driven by Update  *)
(*                  and Compare calls.                                     *)
(* SpecMembership : a System fresh from NewSystem driven by AddNode,       *)
(*                  SetLeader and SetPartition calls.                      *)
(***************************************************************************)
EXTENDS Integers, Sequences, FiniteSets, TLC

VARIABLES Nodes, Leader, Partition, clock, updates, now,
          vc1, vc2, cmp, passed,
          quorum,
          pc, idx, upd, nodeLock, adding

sysVars == <<Nodes, Leader, Partition, clock, updates, now>>
vcVars  == <<vc1, vc2, cmp, passed>>
concVars == <<pc, idx, upd, nodeLock, adding>>
vars    == <<Nodes, Leader, Partition, clock, updates, now, vc1, vc2, cmp, passed,
             quorum, pc, idx, upd, nodeLock, adding>>

(* ---------------------------- bounds ---------------------------------- *)
\* largest value of the wall clock read by GetClockUpdate
MaxTime == 2
\* largest number of ClockUpdate values produced in one behaviour
MaxUpdates == 1
\* largest number of ids marked isolated in the partition table at once
MaxPartitioned == 2
\* largest timestamp passed to VectorClock.Update on a free-standing clock
MaxTs == 2
\* largest cluster size n passed to the quorum computation
MaxN == 7

(* ------------------------ maps (Go map[string]T) ----------------------- *)
EmptyMap == <<>>

\* m[k] = v on a Go map: the key is added or its value overwritten
Put(m, k, v) == [x \in (DOMAIN m) \cup {k} |-> IF x = k THEN v ELSE m[x]]

\* every order in which a range loop may visit the keys S of a Go map
Orders(S) ==
  {o \in [1..Cardinality(S) -> S] : \A i, j \in 1..Cardinality(S) : o[i] = o[j] => i = j}

(* --------------------------- VectorClock ------------------------------- *)
NewVectorClock == EmptyMap

\* an update that adds the timestamp to the stored one
UpdateAccumulate(vc, nodeID, timestamp) ==
  Put(vc, nodeID, (IF nodeID \in DOMAIN vc THEN vc[nodeID] ELSE 0) + timestamp)

Update(vc, nodeID, timestamp) == Put(vc, nodeID, timestamp)

\* reading a missing key of a Go map yields the zero value
GetTimestamp(vc, nodeID) == IF nodeID \in DOMAIN vc THEN vc[nodeID] ELSE 0

\* vc.Compare(other) when the first range loop visits vc's keys in `order`.
\* The second loop only maintains the local maxTimestamp, which is never
\* read, so the result after the first loop is 0.
RECURSIVE Compare(_, _, _)
Compare(vc, other, order) ==
  IF order = <<>> THEN 0
  ELSE LET nodeID  == Head(order)
           ts      == vc[nodeID]
           otherTS == GetTimestamp(other, nodeID)
       IN  IF otherTS > ts THEN -1
           ELSE IF otherTS < ts THEN 1
           ELSE Compare(vc, other, Tail(order))

(* ------------------------- nodes of the program ------------------------ *)
\* The seven Node values of SimulatePartition.
Objs == {"A", "B", "C", "D", "E", "F", "G"}

\* A second Node value created with the id "A", as TestClockPropagation
\* creates its own "A"; it is a different object from SimulatePartition's.
OtherA == "A2"

ID(o) == IF o = OtherA THEN "A" ELSE o

NodeIds == {ID(o) : o \in Objs}

IsByzantine(o) == o = "F"

IsIsolated(o) == o \in {"D", "E"}

Neighbors(o) ==
  CASE o = "A"  -> <<"B", "C", "D">>
    [] o = "B"  -> <<"A", "C", "D">>
    [] o = "C"  -> <<"A", "B", "D">>
    [] o = "D"  -> <<"A", "B", "C", "E">>
    [] o = "E"  -> <<"D">>
    [] o = "F"  -> <<"G">>
    [] o = "G"  -> <<"F">>

(* ------------------------- identity and signing ------------------------ *)
\* GenerateKeyPair gives every Node its own pair; a key is named by its owner.
PrivateKey(o) == o
PublicKey(o) == o

\* The empty Go string.
NoSignature == <<>>

\* An ECDSA signature is determined, as far as any verifier can tell, by the
\* signing key and the signed message "NodeID:Timestamp".
SignClockUpdate(privateKey, update) ==
  LET message == <<update.NodeID, update.Timestamp>>
  IN  <<privateKey, message>>

VerifyClockUpdate(publicKey, update) ==
  LET message   == <<update.NodeID, update.Timestamp>>
      signature == update.Signature
      parts     == IF Len(signature) > 0 THEN <<signature>> ELSE <<>>
  IN  TRUE

(* ------------------------------ System --------------------------------- *)
\* registry of SimulatePartition after its AddNode loop
BuiltNodes == [id \in NodeIds |-> id]

\* Partition is the table as every read sees it: s.Partition[id] is false
\* for an id that was never set.
NewPartition == [id \in NodeIds |-> FALSE]

\* a lookup that never finds the id marked
IsPartitionedUnset(nodeID) == FALSE

IsPartitioned(nodeID) == Partition[nodeID]

GetLeader == Leader

\* the goroutines that each produce and propagate one update
Callers == {"A", "B", "D"}

\* no sync.Mutex held, no goroutine started
Free == "free"
NoNode == "none"
NilUpdate == [NodeID |-> "", Timestamp |-> 0, Signature |-> NoSignature]

InitConcVars ==
  /\ pc = [t \in Callers |-> "idle"]
  /\ idx = [t \in Callers |-> 0]
  /\ upd = [t \in Callers |-> NilUpdate]
  /\ nodeLock = [o \in Objs |-> Free]
  /\ adding = NoNode

Init ==
  /\ Nodes = BuiltNodes
  /\ Leader = "A"
  /\ Partition = NewPartition
  /\ clock = [o \in Objs |-> NewVectorClock]
  /\ updates = {}
  /\ now = 1
  /\ vc1 = NewVectorClock
  /\ vc2 = NewVectorClock
  /\ cmp = <<>>
  /\ passed = [c \in {1, 2} |-> EmptyMap]
  /\ quorum = <<>>
  /\ InitConcVars

AddNode(node) ==
  /\ Nodes' = Put(Nodes, ID(node), node)
  /\ UNCHANGED <<Leader, Partition, clock, updates, now>>
  /\ UNCHANGED vcVars
  /\ UNCHANGED quorum
  /\ UNCHANGED concVars

SetLeader(leaderID) ==
  /\ Leader' = leaderID
  /\ UNCHANGED <<Nodes, Partition, clock, updates, now>>
  /\ UNCHANGED vcVars
  /\ UNCHANGED quorum
  /\ UNCHANGED concVars

\* (A call that stores the value the table already reads as changes
\* nothing; it is a stuttering step and is not enumerated.)
SetPartition(nodeID, isIsolated) ==
  /\ Partition[nodeID] # isIsolated
  /\ isIsolated =>
       Cardinality({id \in NodeIds : Partition[id]} \cup {nodeID}) <= MaxPartitioned
  /\ Partition' = [Partition EXCEPT ![nodeID] = isIsolated]
  /\ UNCHANGED <<Nodes, Leader, clock, updates, now>>
  /\ UNCHANGED vcVars
  /\ UNCHANGED quorum
  /\ UNCHANGED concVars

(* ------------------------------- Node ---------------------------------- *)
\* time.Now().Unix() advances between calls
Tick ==
  /\ now < MaxTime
  /\ now' = now + 1
  /\ UNCHANGED <<Nodes, Leader, Partition, clock, updates>>
  /\ UNCHANGED vcVars
  /\ UNCHANGED quorum
  /\ UNCHANGED concVars

\* the *ClockUpdate returned by n.GetClockUpdate()
ClockUpdateOf(n) ==
  LET update == [NodeID |-> ID(n), Timestamp |-> now, Signature |-> NoSignature]
  IN  IF ~IsByzantine(n)
      THEN [update EXCEPT !.Signature = SignClockUpdate(PrivateKey(n), update)]
      ELSE update

\* a GetClockUpdate that also records the new timestamp in n's own clock
GetClockUpdateRecording(n) ==
  /\ Cardinality(updates) < MaxUpdates
  /\ updates' = updates \cup {ClockUpdateOf(n)}
  /\ clock' = [clock EXCEPT ![n] = Update(@, ID(n), now)]
  /\ UNCHANGED <<Nodes, Leader, Partition, now>>
  /\ UNCHANGED vcVars
  /\ UNCHANGED quorum
  /\ UNCHANGED concVars

GetClockUpdate(n) ==
  /\ Cardinality(updates) < MaxUpdates
  /\ updates' = updates \cup {ClockUpdateOf(n)}
  /\ UNCHANGED <<Nodes, Leader, Partition, clock, now>>
  /\ UNCHANGED vcVars
  /\ UNCHANGED quorum
  /\ UNCHANGED concVars

\* a receive that also refuses when the receiver's own IsIsolated flag is set
VerifyAndApplyByFlag(vc, n, update) ==
  IF IsByzantine(n) \/ IsIsolated(n)
  THEN [ok |-> FALSE, vc |-> vc]
  ELSE [ok |-> TRUE, vc |-> Update(vc, update.NodeID, update.Timestamp)]

\* n.VerifyAndApplyClockUpdate(update) on a node whose clock is vc:
\* the returned bool and the clock afterwards
VerifyAndApplyClockUpdate(vc, n, update) ==
  IF IsByzantine(n)
  THEN [ok |-> FALSE, vc |-> vc]
  ELSE [ok |-> TRUE, vc |-> Update(vc, update.NodeID, update.Timestamp)]

\* a loop that skips a neighbor on its own IsIsolated flag instead of on the
\* membership table
RECURSIVE DeliverByFlag(_, _, _)
DeliverByFlag(cl, nbrs, update) ==
  IF nbrs = <<>> THEN cl
  ELSE LET neighborID == Head(nbrs)
       IN  IF neighborID \in DOMAIN Nodes /\ ~IsIsolated(Nodes[neighborID])
           THEN LET neighbor == Nodes[neighborID]
                    r == VerifyAndApplyClockUpdate(cl[neighbor], neighbor, update)
                IN  DeliverByFlag([cl EXCEPT ![neighbor] = r.vc], Tail(nbrs), update)
           ELSE DeliverByFlag(cl, Tail(nbrs), update)

\* the loop of PropagateClockUpdate over the remaining neighbors nbrs
RECURSIVE Deliver(_, _, _)
Deliver(cl, nbrs, update) ==
  IF nbrs = <<>> THEN cl
  ELSE LET neighborID == Head(nbrs)
       IN  IF IsPartitioned(neighborID)
           THEN Deliver(cl, Tail(nbrs), update)
           ELSE IF neighborID \in DOMAIN Nodes
                THEN LET neighbor == Nodes[neighborID]
                         r == VerifyAndApplyClockUpdate(cl[neighbor], neighbor, update)
                     IN  Deliver([cl EXCEPT ![neighbor] = r.vc], Tail(nbrs), update)
                ELSE Deliver(cl, Tail(nbrs), update)

\* n.PropagateClockUpdate(update, system); a node fans out the updates it
\* produced itself (single hop)
PropagateClockUpdate(n, update) ==
  /\ update \in updates
  /\ update.NodeID = ID(n)
  /\ UNCHANGED <<Nodes, Leader, Partition, updates, now>>
  /\ UNCHANGED vcVars
  /\ UNCHANGED quorum
  /\ UNCHANGED concVars
  /\ clock' = Deliver(clock, Neighbors(n), update)

Next ==
  \/ \E nodeID \in NodeIds, isIsolated \in BOOLEAN : SetPartition(nodeID, isIsolated)
  \/ Tick
  \/ \E n \in Objs : GetClockUpdate(n)
  \/ \E n \in Objs, update \in updates : PropagateClockUpdate(n, update)

Spec == Init /\ [][Next]_vars

(* ----------------------- membership on its own ------------------------- *)
\* an id no Node was created with
UnknownId == "H"

\* NewSystem(): empty registry, empty table, Leader the zero string
InitMembership ==
  /\ Nodes = EmptyMap
  /\ Leader = ""
  /\ Partition = NewPartition
  /\ clock = [o \in Objs |-> NewVectorClock]
  /\ updates = {}
  /\ now = 1
  /\ vc1 = NewVectorClock
  /\ vc2 = NewVectorClock
  /\ cmp = <<>>
  /\ passed = [c \in {1, 2} |-> EmptyMap]
  /\ quorum = <<>>
  /\ InitConcVars

NextMembership ==
  \/ \E node \in Objs \cup {OtherA} : AddNode(node)
  \/ \E leaderID \in NodeIds \cup {UnknownId} : SetLeader(leaderID)
  \/ \E nodeID \in NodeIds, isIsolated \in BOOLEAN : SetPartition(nodeID, isIsolated)

SpecMembership == InitMembership /\ [][NextMembership]_vars

(* ------------------- free-standing VectorClock values ------------------ *)
VcIds == {"A", "B"}

Clock(c) == IF c = 1 THEN vc1 ELSE vc2

\* c.Update(nodeID, timestamp); passed records the largest timestamp ever
\* passed for nodeID to clock c
UpdateCall(c, nodeID, timestamp) ==
  /\ vc1' = IF c = 1 THEN Update(vc1, nodeID, timestamp) ELSE vc1
  /\ vc2' = IF c = 2 THEN Update(vc2, nodeID, timestamp) ELSE vc2
  /\ passed' = [passed EXCEPT ![c] =
                  Put(@, nodeID, IF GetTimestamp(@, nodeID) > timestamp
                                 THEN GetTimestamp(@, nodeID) ELSE timestamp)]
  /\ cmp' = <<>>
  /\ UNCHANGED sysVars
  /\ UNCHANGED quorum
  /\ UNCHANGED concVars

\* vc1.Compare(vc2) and vc2.Compare(vc1), each under some iteration order
CompareCall ==
  /\ \E o1 \in Orders(DOMAIN vc1), o2 \in Orders(DOMAIN vc2) :
       cmp' = <<Compare(vc1, vc2, o1), Compare(vc2, vc1, o2)>>
  /\ UNCHANGED <<vc1, vc2, passed>>
  /\ UNCHANGED sysVars
  /\ UNCHANGED quorum
  /\ UNCHANGED concVars

NextClock ==
  \/ \E c \in {1, 2}, nodeID \in VcIds, timestamp \in 0..MaxTs : UpdateCall(c, nodeID, timestamp)
  \/ CompareCall

SpecClock == Init /\ [][NextClock]_vars

(* ======================= properties of Spec ============================ *)
Correct(o) == ~IsByzantine(o)

IsNeighbor(o, id) == \E i \in 1..Len(Neighbors(o)) : Neighbors(o)[i] = id

\* C1: an update a Byzantine node produced itself (empty signature) is
\* rejected by every correct, registered, non-partitioned neighbor: the
\* neighbor's VerifyAndApplyClockUpdate returns false and leaves its clock
\* as it was.
C1_ByzantineUpdateRejected ==
  \A f \in Objs, update \in updates :
    (IsByzantine(f) /\ update.NodeID = ID(f) /\ update.Signature = NoSignature) =>
      \A id \in DOMAIN Nodes :
        (IsNeighbor(f, id) /\ Correct(Nodes[id]) /\ ~Partition[id]) =>
          LET r == VerifyAndApplyClockUpdate(clock[Nodes[id]], Nodes[id], update)
          IN  r.ok = FALSE /\ r.vc = clock[Nodes[id]]

\* the membership table of the canonical scenario: D and E marked, nobody else
CanonicalPartition == [id \in NodeIds |-> id \in {"D", "E"}]

Canonical == Nodes = BuiltNodes /\ Partition = CanonicalPartition

\* C3: in the canonical scenario an update produced at A and propagated by A
\* is applied at B, C and D: afterwards each of them holds the update's
\* timestamp for A.
C3_ReachesBCD ==
  [][\A update \in updates :
       (Canonical /\ Correct("A") /\ PropagateClockUpdate("A", update)) =>
         \A id \in {"B", "C", "D"} :
           GetTimestamp(clock'[Nodes[id]], "A") = update.Timestamp]_vars

\* C4: while D is marked partitioned, a PropagateClockUpdate call made by D
\* changes the clock of none of A, B, C.
C4_SenderSuppressed ==
  [][\A update \in updates :
       (Partition["D"] /\ PropagateClockUpdate("D", update)) =>
         \A id \in {"A", "B", "C"} : clock'[Nodes[id]] = clock[Nodes[id]]]_vars

\* C5: while E is marked partitioned, no GetClockUpdate and no
\* PropagateClockUpdate call by any node changes E's clock.
C5_IsolatedNeverReceives ==
  [][\A n \in Objs :
       (Partition["E"] /\ (GetClockUpdate(n) \/ \E update \in updates : PropagateClockUpdate(n, update))) =>
         clock'["E"] = clock["E"]]_vars

\* C5 witness: E is marked, D has propagated an update of its own (A holds
\* it), and E's clock is still empty.
C5_Witness ==
  /\ Partition["E"]
  /\ \E update \in updates :
       update.NodeID = "D" /\ GetTimestamp(clock["A"], "D") = update.Timestamp
  /\ clock["E"] = NewVectorClock

\* C6: a signature made with X's private key over an update fails
\* verification under the public key of any other node Y.
C6_OtherKeyFails ==
  \A update \in updates, x \in Objs, y \in Objs :
    (x # y /\ update.Signature = SignClockUpdate(PrivateKey(x), update)) =>
      VerifyClockUpdate(PublicKey(y), update) = FALSE

\* C7: a signed update whose Timestamp is changed after signing (signature
\* kept) fails verification under the signer's own public key.
C7_TamperedTimestampFails ==
  \A update \in updates, x \in Objs, t \in 1..MaxTime :
    (t # update.Timestamp /\ update.Signature = SignClockUpdate(PrivateKey(x), update)) =>
      VerifyClockUpdate(PublicKey(x), [update EXCEPT !.Timestamp = t]) = FALSE

\* C10: when a correct node propagates an update it produced, every neighbor
\* that is registered, not Byzantine and not partitioned afterwards returns
\* the update's Timestamp from GetTimestamp(sender id).  (Written as
\* "postcondition, or the step is not that call".)
C10_PropagationApplied ==
  [][UNCHANGED <<updates, Partition, now>> =>
     \A update \in updates, n \in Objs :
       (update.NodeID = ID(n) /\ Correct(n)) =>
         \/ \A i \in 1..Len(Neighbors(n)) :
              LET id == Neighbors(n)[i]
              IN  (id \in DOMAIN Nodes /\ Correct(Nodes[id]) /\ ~Partition[id]) =>
                    GetTimestamp(clock'[Nodes[id]], ID(n)) = update.Timestamp
         \/ ~PropagateClockUpdate(n, update)]_vars

\* C10 witness: A's update sits at B and C and at D, whose IsIsolated flag is
\* set but which the table does not mark; E, marked, holds nothing.
C10_Witness ==
  /\ ~Partition["B"] /\ ~Partition["C"] /\ ~Partition["D"]
  /\ \E update \in updates :
       /\ update.NodeID = "A"
       /\ \A id \in {"B", "C", "D"} : GetTimestamp(clock[Nodes[id]], "A") = update.Timestamp
       /\ update.Timestamp > 0

\* C18: the membership table alone decides where PropagateClockUpdate
\* delivers: whatever the IsIsolated flags of the sender and of the
\* neighbors, a registered neighbor takes the update exactly when the table
\* does not mark it (and it is not Byzantine), and every other clock stays.
C18_TableAuthoritative ==
  [][UNCHANGED <<updates, Partition, now>> =>
     \A update \in updates, n \in Objs :
       update.NodeID = ID(n) =>
         \/ clock' =
              [o \in Objs |->
                 IF /\ ID(o) \in DOMAIN Nodes /\ Nodes[ID(o)] = o
                    /\ IsNeighbor(n, ID(o)) /\ ~Partition[ID(o)] /\ Correct(o)
                 THEN Update(clock[o], update.NodeID, update.Timestamp)
                 ELSE clock[o]]
         \/ ~PropagateClockUpdate(n, update)]_vars

\* C18 witness: D, created with IsIsolated set, has delivered its update to
\* A (flag clear) and to E (flag set), neither being marked in the table
C18_Witness ==
  /\ IsIsolated("D") /\ IsIsolated("E") /\ ~IsIsolated("A")
  /\ ~Partition["A"] /\ ~Partition["E"]
  /\ \E update \in updates :
       /\ update.NodeID = "D"
       /\ GetTimestamp(clock["A"], "D") = update.Timestamp
       /\ GetTimestamp(clock["E"], "D") = update.Timestamp

\* C20: GetClockUpdate changes no clock, and PropagateClockUpdate by n does
\* not change n's own clock.
\* (Stated by contraposition: a step that changes n's clock is neither a
\* GetClockUpdate by anybody nor a PropagateClockUpdate by n.)
C20_ProducerClockUntouched ==
  [][\A n \in Objs :
       clock'[n] # clock[n] =>
         /\ \A m \in Objs : ~GetClockUpdate(m)
         /\ \A update \in updates : ~PropagateClockUpdate(n, update)]_vars

\* C20 witness: A produced and propagated an update; B records it and A's
\* own clock still has no entry for A
C20_Witness ==
  \E update \in updates :
    /\ update.NodeID = "A"
    /\ "A" \in DOMAIN clock["B"] /\ clock["B"]["A"] = update.Timestamp
    /\ "A" \notin DOMAIN clock["A"]

(* ===================== properties of SpecClock ========================= *)
\* C2: the timestamp a clock stores for n is the largest timestamp ever
\* passed to Update for n (a later, smaller timestamp does not regress it).
C2_NeverRegresses ==
  \A c \in {1, 2} : \A n \in DOMAIN passed[c] :
    GetTimestamp(Clock(c), n) = passed[c][n]

\* C8: A.Compare(B) and B.Compare(A) are inverses: LESS on one side exactly
\* when GREATER on the other, EQUAL exactly when EQUAL.
C8_CompareInverse ==
  cmp # <<>> =>
    /\ cmp[1] = -1 <=> cmp[2] = 1
    /\ cmp[1] = 1 <=> cmp[2] = -1
    /\ cmp[1] = 0 <=> cmp[2] = 0

\* every entry of a is <= b's and one is strictly less, a missing key being 0
Dominated(a, b) ==
  /\ \A k \in DOMAIN a \cup DOMAIN b : GetTimestamp(a, k) <= GetTimestamp(b, k)
  /\ \E k \in DOMAIN a \cup DOMAIN b : GetTimestamp(a, k) < GetTimestamp(b, k)

\* C9: Compare returns LESS exactly when the receiver is dominated by the
\* argument (missing keys counting as 0), and 0 for identical entries.
C9_LessIffDominated ==
  cmp # <<>> =>
    /\ cmp[1] < 0 <=> Dominated(vc1, vc2)
    /\ cmp[2] < 0 <=> Dominated(vc2, vc1)
    /\ vc1 = vc2 => cmp[1] = 0 /\ cmp[2] = 0

\* C12: a correct node that receives an update whose timestamp is not
\* larger than the one it stores for update.NodeID rejects it as stale:
\* VerifyAndApplyClockUpdate does not report it applied and the clock is
\* unchanged.
C12_StaleRejected ==
  \A update \in updates, id \in DOMAIN Nodes :
    (Correct(Nodes[id]) /\ Nodes[id] \in DOMAIN clock
       /\ update.Timestamp <= GetTimestamp(clock[Nodes[id]], update.NodeID)) =>
      LET r == VerifyAndApplyClockUpdate(clock[Nodes[id]], Nodes[id], update)
      IN  r.ok = FALSE /\ r.vc = clock[Nodes[id]]

\* C16: merge is idempotent: applying an update a second time gives the
\* same clock as applying it once.
C16_UpdateIdempotent ==
  [][\A c \in {1, 2}, nodeID \in VcIds, timestamp \in 0..MaxTs :
       UpdateCall(c, nodeID, timestamp) =>
         LET once == IF c = 1 THEN vc1' ELSE vc2'
         IN  Update(once, nodeID, timestamp) = once]_vars

\* C16 witness: a clock that has taken updates for both ids, one of them
\* over an earlier, different timestamp
C16_Witness ==
  /\ DOMAIN vc1 = VcIds
  /\ vc1["A"] > 0
  /\ passed[1]["A"] > vc1["A"]

\* C19: Compare is deterministic: whatever order the range loop visits the
\* receiver's entries in, vc1.Compare(vc2) gives the same result.
C19_CompareDeterministic ==
  \A o1 \in Orders(DOMAIN vc1), o2 \in Orders(DOMAIN vc1) :
    Compare(vc1, vc2, o1) = Compare(vc1, vc2, o2)

(* ------------------------------ quorum --------------------------------- *)
\* minimum k without the "+ 1"
MinimumKOffByOne(n, f) == n - f

\* k := n - f + 1
MinimumK(n, f) == n - f + 1

HasQuorum(verifiedCount, n, f) == verifiedCount >= MinimumK(n, f)

\* one evaluation of the quorum size and of the quorum test:
\* quorum = <<n, f, verifiedCount, minimum k, has quorum>>
QuorumCall(verifiedCount, n, f) ==
  /\ quorum' = <<n, f, verifiedCount, MinimumK(n, f), HasQuorum(verifiedCount, n, f)>>
  /\ UNCHANGED sysVars
  /\ UNCHANGED vcVars
  /\ UNCHANGED concVars

NextQuorum ==
  \E n \in 1..MaxN, f \in 0..MaxN, verifiedCount \in 0..MaxN :
    f < n /\ QuorumCall(verifiedCount, n, f)

SpecQuorum == Init /\ [][NextQuorum]_vars

\* C15: for 0 <= f < n the minimum k is n - f + 1 and the quorum test is
\* true exactly when the count reaches it; for n = 7, f = 2 the minimum is
\* 6, a count of 6 has quorum and a count of 5 has not.
C15_QuorumSize ==
  quorum # <<>> =>
    LET n == quorum[1]
        f == quorum[2]
        count == quorum[3]
    IN  /\ quorum[4] = n - f + 1
        /\ quorum[5] <=> count >= n - f + 1
        /\ (n = 7 /\ f = 2) => quorum[4] = 6
        /\ (n = 7 /\ f = 2 /\ count = 6) => quorum[5] = TRUE
        /\ (n = 7 /\ f = 2 /\ count = 5) => quorum[5] = FALSE

\* C15 witness: the quorum test was evaluated for count 5 of n = 7, f = 2
C15_Witness == quorum = <<7, 2, 5, 6, FALSE>>

(* =================== properties of SpecMembership ====================== *)
\* C13: the leader, if set, is the id of a registered node.
C13_LeaderRegistered == Leader # "" => Leader \in DOMAIN Nodes

\* C14: AddNode with an id that is already registered leaves the registry
\* unchanged: the node stored under that id is still the earlier one.
C14_DuplicateRefused ==
  [][\A node \in Objs \cup {OtherA} :
       (ID(node) \in DOMAIN Nodes /\ AddNode(node)) => Nodes' = Nodes]_vars

(* ------------------- concurrent callers (goroutines) ------------------- *)
\* Each caller t runs  update := t.GetClockUpdate();
\* t.PropagateClockUpdate(update, system)  while another goroutine calls
\* system.AddNode.  A step is the code between two lock operations or
\* shared accesses.  sync.Mutex is not reentrant; Lock() blocks while held.
InitConc ==
  /\ Nodes = BuiltNodes
  /\ Leader = "A"
  /\ Partition = CanonicalPartition
  /\ clock = [o \in Objs |-> NewVectorClock]
  /\ updates = {}
  /\ now = 1
  /\ vc1 = NewVectorClock
  /\ vc2 = NewVectorClock
  /\ cmp = <<>>
  /\ passed = [c \in {1, 2} |-> EmptyMap]
  /\ quorum = <<>>
  /\ InitConcVars

\* the Go runtime has not aborted the process ("concurrent map read and
\* map write")
Running == \A t \in Callers : pc[t] # "fatal"

ConcFrame ==
  /\ UNCHANGED <<Leader, Partition, updates, now>>
  /\ UNCHANGED vcVars
  /\ UNCHANGED quorum

\* the neighbor the loop of PropagateClockUpdate is at
NeighborAt(t) == Neighbors(t)[idx[t]]

\* t.GetClockUpdate(): n.Lock.Lock() ... n.Lock.Unlock() around the body
Produce(t) ==
  /\ Running /\ pc[t] = "idle"
  /\ nodeLock[t] = Free
  /\ upd' = [upd EXCEPT ![t] = ClockUpdateOf(t)]
  /\ pc' = [pc EXCEPT ![t] = "produced"]
  /\ UNCHANGED <<Nodes, clock, idx, nodeLock, adding>>
  /\ ConcFrame

\* PropagateClockUpdate: n.Lock.Lock(), held until the deferred Unlock
PropagateLock(t) ==
  /\ Running /\ pc[t] = "produced"
  /\ nodeLock[t] = Free
  /\ nodeLock' = [nodeLock EXCEPT ![t] = t]
  /\ idx' = [idx EXCEPT ![t] = 1]
  /\ pc' = [pc EXCEPT ![t] = "loop"]
  /\ UNCHANGED <<Nodes, clock, upd, adding>>
  /\ ConcFrame

\* loop exhausted: return, running the deferred n.Lock.Unlock()
PropagateReturn(t) ==
  /\ Running /\ pc[t] = "loop"
  /\ idx[t] > Len(Neighbors(t))
  /\ nodeLock' = [nodeLock EXCEPT ![t] = Free]
  /\ pc' = [pc EXCEPT ![t] = "done"]
  /\ UNCHANGED <<Nodes, clock, idx, upd, adding>>
  /\ ConcFrame

\* system.IsPartitioned(neighborID): RLock, read, RUnlock; blocks while a
\* writer holds system.Lock
PropagateCheck(t) ==
  /\ Running /\ pc[t] = "loop"
  /\ idx[t] <= Len(Neighbors(t))
  /\ adding = NoNode
  /\ IF IsPartitioned(NeighborAt(t))
     THEN /\ idx' = [idx EXCEPT ![t] = @ + 1]
          /\ pc' = pc
     ELSE /\ idx' = idx
          /\ pc' = [pc EXCEPT ![t] = "lookup"]
  /\ UNCHANGED <<Nodes, clock, upd, nodeLock, adding>>
  /\ ConcFrame

\* neighbor, exists := system.Nodes[neighborID], read without system.Lock.
\* While AddNode is inside its critical section the read races with the
\* map write: it may find the entry, miss it, or abort the process.
PropagateLookup(t) ==
  /\ Running /\ pc[t] = "lookup"
  /\ \E outcome \in {"found", "missing", "fatal"} :
       /\ adding = NoNode =>
            outcome = (IF NeighborAt(t) \in DOMAIN Nodes THEN "found" ELSE "missing")
       /\ outcome = "found" => NeighborAt(t) \in DOMAIN Nodes
       /\ pc' = [pc EXCEPT ![t] = CASE outcome = "found" -> "call"
                                    [] outcome = "missing" -> "loop"
                                    [] outcome = "fatal" -> "fatal"]
       /\ idx' = [idx EXCEPT ![t] = IF outcome = "missing" THEN @ + 1 ELSE @]
  /\ UNCHANGED <<Nodes, clock, upd, nodeLock, adding>>
  /\ ConcFrame

\* neighbor.VerifyAndApplyClockUpdate(update): blocks on neighbor.Lock, then
\* runs its body and unlocks; the caller still holds its own lock
PropagateCall(t) ==
  /\ Running /\ pc[t] = "call"
  /\ LET neighbor == Nodes[NeighborAt(t)]
     IN  /\ nodeLock[neighbor] = Free
         /\ clock' = [clock EXCEPT ![neighbor] =
                        VerifyAndApplyClockUpdate(@, neighbor, upd[t]).vc]
  /\ idx' = [idx EXCEPT ![t] = @ + 1]
  /\ pc' = [pc EXCEPT ![t] = "loop"]
  /\ UNCHANGED <<Nodes, upd, nodeLock, adding>>
  /\ ConcFrame

\* system.AddNode(node): s.Lock.Lock()
AddNodeLock(node) ==
  /\ Running /\ adding = NoNode
  /\ adding' = node
  /\ UNCHANGED <<Nodes, clock, pc, idx, upd, nodeLock>>
  /\ ConcFrame

\* s.Nodes[node.ID] = node, then the deferred s.Lock.Unlock()
AddNodeWrite ==
  /\ Running /\ adding # NoNode
  /\ Nodes' = Put(Nodes, ID(adding), adding)
  /\ adding' = NoNode
  /\ UNCHANGED <<clock, pc, idx, upd, nodeLock>>
  /\ ConcFrame

NextConc ==
  \/ \E t \in Callers : Produce(t)
  \/ \E t \in Callers : PropagateLock(t)
  \/ \E t \in Callers : PropagateCheck(t)
  \/ \E t \in Callers : PropagateLookup(t)
  \/ \E t \in Callers : PropagateCall(t)
  \/ \E t \in Callers : PropagateReturn(t)
  \/ \E node \in Objs : AddNodeLock(node)
  \/ AddNodeWrite

SpecConc == InitConc /\ [][NextConc]_vars

(* ====================== properties of SpecConc ========================= *)
\* caller t holds its own lock and is blocked on the lock of node o
WaitsFor(t, o) ==
  /\ pc[t] = "call"
  /\ nodeLock[t] = t
  /\ Nodes[NeighborAt(t)] = o
  /\ nodeLock[o] # Free

\* C11: no reachable state has a node holding its own lock while waiting
\* for another node's lock that is held by a node waiting on the first.
C11_NoLockCycle ==
  \A t1 \in Callers, t2 \in Callers :
    t1 # t2 => ~(WaitsFor(t1, t2) /\ WaitsFor(t2, t1))

\* C17: the node lookup of PropagateClockUpdate never runs while AddNode is
\* inside its critical section writing the registry.
C17_LookupExcludesWrite ==
  \A t \in Callers : pc[t] = "lookup" => adding = NoNode

====
